---- MODULE Spec2Model ----
(***************************************************************************)
(* Model of src/data_augment.py: the random augmentation functions         *)
(* random_scale, random_hue, random_rotate, invert_img and the dispatcher  *)
(* random_transform.                                                       *)
(*                                                                         *)
(* A canvas is a record [dtype, h, w, px]: px[y][x] is the pixel at row y, *)
(* column x (0-based, as numpy indexes), a triple <<r, g, b>>.  dtype is   *)
(* the numpy element type ("uint8" or "float64").  Floating point values   *)
(* are kept exact: every draw below is chosen so that the values the code  *)
(* computes are whole numbers.                                             *)
(*                                                                         *)
(* Scale factors and probabilities are fixed-point: a scale factor is in   *)
(* hundredths (143 is 1.43), a probability or a dice value in tenths.      *)
(***************************************************************************)
EXTENDS Integers, Sequences, FiniteSets, TLC

\* Canvas height and width of the inputs (imh, imw).
H == 3
W == 3

VARIABLES
    fn,       \* the function the caller invoked
    pc,       \* position in the code
    img,      \* the argument img of the invoked function
    par,      \* the other arguments of the invoked function
    s_img,    \* random_scale: its argument img
    sc,       \* random_scale: its local variables
    img_trf,  \* random_transform: the local img_trf
    hist,     \* random_transform: the gates drawn and the steps run so far
    ret,      \* the returned canvas
    err       \* the exception raised, "none" if none

vars == <<fn, pc, img, par, s_img, sc, img_trf, hist, ret, err>>

-----------------------------------------------------------------------------
\* Canvases

ZeroPix == <<0, 0, 0>>

NoCanvas == [dtype |-> "none", h |-> 0, w |-> 0, px |-> <<>>]

\* A two-tone canvas of h rows and w columns: fg inside rows r0..r1 and
\* columns c0..c1, bg elsewhere.
Block(dt, h, w, r0, r1, c0, c1, fg, bg) ==
    [dtype |-> dt, h |-> h, w |-> w,
     px |-> [y \in 0..(h - 1) |-> [x \in 0..(w - 1) |->
                IF y \in r0..r1 /\ x \in c0..c1 THEN fg ELSE bg]]]

Rows(c) == 0..(c.h - 1)
Cols(c) == 0..(c.w - 1)
Chans == 1..3

\* Every element of the canvas, as (row, column, channel).
Elems(c) == Rows(c) \X Cols(c) \X Chans
At(c, e) == c.px[e[1]][e[2]][e[3]]

\* A canvas of the size of c with element type dt and the pixels px.
Like(c, dt, px) == [dtype |-> dt, h |-> c.h, w |-> c.w, px |-> px]

Min(S) == CHOOSE m \in S : \A n \in S : m <= n
Max(S) == CHOOSE m \in S : \A n \in S : m >= n

PixSum(p) == p[1] + p[2] + p[3]

RECURSIVE SumUpTo(_, _)
\* f[0] + ... + f[n]
SumUpTo(f, n) == IF n < 0 THEN 0 ELSE f[n] + SumUpTo(f, n - 1)

\* np.sum(img, axis=(1,2))[y] and np.sum(img, axis=(0,2))[x]
RowSum(c, y) == SumUpTo([x \in Cols(c) |-> PixSum(c.px[y][x])], c.w - 1)
ColSum(c, x) == SumUpTo([y \in Rows(c) |-> PixSum(c.px[y][x])], c.h - 1)

\* np.where(sum != 0)[0], as the set of its indexes
NonzeroRows(c) == {y \in Rows(c) : RowSum(c, y) # 0}
NonzeroCols(c) == {x \in Cols(c) : ColSum(c, x) # 0}

\* int(n / d) for d > 0: Python's int() truncates toward zero.
IntTrunc(n, d) == IF n >= 0 THEN n \div d ELSE -((-n) \div d)

-----------------------------------------------------------------------------
\* Leaving a function

Raise(e) ==
    /\ pc' = "raised"
    /\ err' = e
    /\ UNCHANGED <<ret, img_trf, hist>>

-----------------------------------------------------------------------------
\* random_scale(img, min_scale, max_scale, min_pad)

\* The scale factors np.random.uniform may draw, in hundredths.
ScaleSamples == {50, 70, 100, 140}

ScaleFresh ==
    [eqh |-> 0, eqw |-> 0, scale_factor |-> 0, img_scale |-> NoCanvas,
     y_min |-> 0, y_max |-> 0, x_min |-> 0, x_max |-> 0, path |-> "none",
     crop |-> NoCanvas, pad_size_up |-> 0, pad_size_down |-> 0,
     pad_size_left |-> 0, pad_size_right |-> 0]

\* random_scale hands its result back: to the caller, or to random_transform,
\* which assigns it to img_trf and goes on to its hue gate (the locals of
\* random_scale are gone then).
ScaleReturn(result, locals) ==
    IF fn = "random_scale"
    THEN /\ pc' = "returned"
         /\ ret' = result
         /\ sc' = locals
         /\ UNCHANGED <<img_trf, hist, err>>
    ELSE /\ pc' = "t_hue"
         /\ img_trf' = result
         /\ sc' = ScaleFresh
         /\ hist' = [hist EXCEPT !.steps = Append(@, "scale")]
         /\ UNCHANGED <<ret, err>>

\* The content height and width: last nonzero index minus first.
\* eqh[-1] - eqh[0] of an empty index array raises IndexError, and
\* float(imh) / float(eqh) with eqh = 0 raises ZeroDivisionError.
ScaleExtent ==
    /\ pc = "scale_extent"
    /\ LET rows == NonzeroRows(s_img)
           cols == NonzeroCols(s_img)
       IN  IF rows = {} \/ cols = {}
           THEN Raise("IndexError") /\ UNCHANGED sc
           ELSE LET eqh == Max(rows) - Min(rows)
                    eqw == Max(cols) - Min(cols)
                IN  IF eqh = 0 \/ eqw = 0
                    THEN Raise("ZeroDivisionError") /\ UNCHANGED sc
                    ELSE /\ sc' = [sc EXCEPT !.eqh = eqh, !.eqw = eqw]
                         /\ pc' = "scale_resample"
                         /\ UNCHANGED <<ret, img_trf, hist, err>>
    /\ UNCHANGED <<fn, img, par, s_img>>

\* s < min(imh / eqh, imw / eqw, max_scale) and s > that minimum, with s and
\* max_scale in hundredths.
BelowCap(s) ==
    /\ s < par.max_scale
    /\ s * sc.eqh < 100 * s_img.h
    /\ s * sc.eqw < 100 * s_img.w
AboveCap(s) ==
    \/ s > par.max_scale
    \/ s * sc.eqh > 100 * s_img.h
    \/ s * sc.eqw > 100 * s_img.w

\* np.random.uniform(min_scale, max_scale) draws from [low, high); with
\* low above high numpy draws between the two all the same.
ScaleDraws ==
    {s \in ScaleSamples :
        \/ par.min_scale <= s /\ BelowCap(s)
        \/ s <= par.min_scale /\ AboveCap(s)}

\* scipy.misc.imresize(img, factor, interp='bicubic'): a uint8 canvas of
\* int(h * factor) rows and int(w * factor) columns.  The interpolated
\* content is the library's: any two-tone block of that size whose foreground is
\* a nonzero pixel of the input, or no content at all.
NonzeroPixels(c) == {c.px[y][x] : y \in Rows(c), x \in Cols(c)} \ {ZeroPix}
Intervals(n) == {<<a, b>> \in (0..(n - 1)) \X (0..(n - 1)) : a <= b}
Resampled(c, s) ==
    LET sh == (c.h * s) \div 100
        sw == (c.w * s) \div 100
    IN  {Block("uint8", sh, sw, r[1], r[2], k[1], k[2], fg, ZeroPix) :
            r \in Intervals(sh), k \in Intervals(sw), fg \in NonzeroPixels(c)}
        \cup {Block("uint8", sh, sw, 0, -1, 0, -1, ZeroPix, ZeroPix)}

ScaleResample ==
    /\ pc = "scale_resample"
    /\ \E s \in ScaleDraws :
         \E r \in Resampled(s_img, s) :
            sc' = [sc EXCEPT !.scale_factor = s, !.img_scale = r]
    /\ pc' = "scale_check"
    /\ UNCHANGED <<fn, img, par, s_img, img_trf, hist, ret, err>>

\* A fallback test that also rejects content that exactly fits.
TooBigOrEqual(y_min, y_max, x_min, x_max) ==
    \/ (y_max - y_min) + 2 * par.min_pad >= s_img.h
    \/ (x_max - x_min) + 2 * par.min_pad >= s_img.w

\* The fallback test: content extent plus padding against the canvas size.
TooBig(y_min, y_max, x_min, x_max) ==
    \/ (y_max - y_min) + 2 * par.min_pad > s_img.h
    \/ (x_max - x_min) + 2 * par.min_pad > s_img.w

\* Lines 64-75: the extent of the resampled canvas, and the early return of img.
ScaleCheck ==
    /\ pc = "scale_check"
    /\ LET row_sum == NonzeroRows(sc.img_scale)
           col_sum == NonzeroCols(sc.img_scale)
       IN  IF row_sum = {} \/ col_sum = {}
           THEN Raise("IndexError") /\ UNCHANGED sc
           ELSE IF TooBig(Min(row_sum), Max(row_sum), Min(col_sum), Max(col_sum))
                THEN ScaleReturn(s_img, [sc EXCEPT !.path = "fallback"])
                ELSE /\ sc' = [sc EXCEPT !.path = "crop"]
                     /\ pc' = "scale_crop"
                     /\ UNCHANGED <<ret, img_trf, hist, err>>
    /\ UNCHANGED <<fn, img, par, s_img>>

\* c[y0:y1, x0:x1, :] with indexes >= 0: numpy stops a slice at the array's
\* end, and a slice whose end is not past its start is empty.
Slice(c, y0, y1, x0, x1) ==
    LET ya == IF y0 < c.h THEN y0 ELSE c.h
        yb == IF y1 < c.h THEN y1 ELSE c.h
        xa == IF x0 < c.w THEN x0 ELSE c.w
        xb == IF x1 < c.w THEN x1 ELSE c.w
        nh == IF yb > ya THEN yb - ya ELSE 0
        nw == IF xb > xa THEN xb - xa ELSE 0
    IN  [dtype |-> c.dtype, h |-> nh, w |-> nw,
         px |-> [y \in 0..(nh - 1) |-> [x \in 0..(nw - 1) |-> c.px[ya + y][xa + x]]]]

\* Lines 77-87: widen the extent by min_pad, clamp it to the canvas, crop.
ScaleCrop ==
    /\ pc = "scale_crop"
    /\ LET row_sum == NonzeroRows(sc.img_scale)
           col_sum == NonzeroCols(sc.img_scale)
           y_min == Max({Min(row_sum) - par.min_pad, 0})
           x_min == Max({Min(col_sum) - par.min_pad, 0})
           y_max == Min({Max(row_sum) + par.min_pad, s_img.h - 1})
           x_max == Min({Max(col_sum) + par.min_pad, s_img.w - 1})
       IN  sc' = [sc EXCEPT !.y_min = y_min, !.y_max = y_max,
                            !.x_min = x_min, !.x_max = x_max,
                            !.crop = Slice(sc.img_scale, y_min, y_max, x_min, x_max)]
    /\ pc' = "scale_pad"
    /\ UNCHANGED <<fn, img, par, s_img, img_trf, hist, ret, err>>

\* A split that rounds the first half up.
PadBeforeRoundedUp(size, crop) == IntTrunc(size - crop + 1, 2)

\* int((size - crop) / 2)
PadBefore(size, crop) == IntTrunc(size - crop, 2)

\* np.pad(c, ((up, down), (left, right), (0, 0)), 'constant', 0)
Pad(c, up, down, left, right) ==
    [dtype |-> c.dtype, h |-> up + c.h + down, w |-> left + c.w + right,
     px |-> [y \in 0..(up + c.h + down - 1) |-> [x \in 0..(left + c.w + right - 1) |->
                IF y \in up..(up + c.h - 1) /\ x \in left..(left + c.w - 1)
                THEN c.px[y - up][x - left]
                ELSE ZeroPix]]]

\* Lines 89-99: pad the crop back to the canvas size.  np.pad raises
\* ValueError on a negative pad width.
ScalePad ==
    /\ pc = "scale_pad"
    /\ LET up    == PadBefore(s_img.h, sc.crop.h)
           down  == (s_img.h - sc.crop.h) - up
           left  == PadBefore(s_img.w, sc.crop.w)
           right == (s_img.w - sc.crop.w) - left
           locals == [sc EXCEPT !.pad_size_up = up, !.pad_size_down = down,
                                !.pad_size_left = left, !.pad_size_right = right]
       IN  IF up < 0 \/ down < 0 \/ left < 0 \/ right < 0
           THEN Raise("ValueError") /\ sc' = locals
           ELSE ScaleReturn(Pad(sc.crop, up, down, left, right), locals)
    /\ UNCHANGED <<fn, img, par, s_img>>

NextScale == ScaleExtent \/ ScaleResample \/ ScaleCheck \/ ScaleCrop \/ ScalePad

\* The canvases random_scale is called on: a block of one nonzero colour
\* on a zero background (at least one nonzero pixel).
ContentPixels == {<<255, 255, 255>>, <<0, 0, 7>>}
ScaleInputs ==
    {Block("uint8", H, W, r[1], r[2], k[1], k[2], fg, ZeroPix) :
        r \in Intervals(H), k \in Intervals(W), fg \in ContentPixels}

NoHist == [gates |-> <<>>, steps |-> <<>>, pre |-> NoCanvas]

InitScale ==
    /\ fn = "random_scale"
    /\ pc = "scale_extent"
    /\ img \in ScaleInputs
    /\ par \in [min_scale : {50, 70}, max_scale : {100, 143}, min_pad : {0, 1, 2}]
    /\ s_img = img
    /\ sc = ScaleFresh
    /\ img_trf = NoCanvas
    /\ hist = NoHist
    /\ ret = NoCanvas
    /\ err = "none"

SpecScale == InitScale /\ [][NextScale]_vars

-----------------------------------------------------------------------------
\* random_hue(img)

\* np.sum(img == v): the number of elements equal to v
NumEqual(c, v) == Cardinality({e \in Elems(c) : At(c, e) = v})

\* Lines 108-114: bg_value is 255 unless the zeros outnumber the 255s.
BgValue(c) == IF NumEqual(c, 0) > NumEqual(c, 255) THEN 0 ELSE 255

\* The draws of random_hue: hue in twelfths, sat in thirds, val in fifths.
HueSamples == {0, 3, 8}
SatSamples == {0, 2}
\* val is uniform(0.3, 1) on a 0 background and uniform(0, 0.7) otherwise.
ValDraws(bg_value) ==
    IF bg_value = 0 THEN {v \in 0..4 : 3 <= 2 * v /\ 2 * v < 10}
                    ELSE {v \in 0..4 : 2 * v < 7}

\* skimage's hsv2rgb of the pixel (hue/12, sat/3, val/5), each channel times
\* 255 (so 255 stands for 1.0): hi = floor(6h), f = 6h - hi, p = v(1 - s),
\* q = v(1 - f s), t = v(1 - (1 - f) s), and the sextant hi picks the triple.
HsvToRgb(hue, sat, val) ==
    LET hi == (hue \div 2) % 6
        f2 == hue % 2
        v  == 51 * val
        p  == (v * (3 - sat)) \div 3
        q  == (v * (6 - f2 * sat)) \div 6
        t  == (v * (6 - (2 - f2) * sat)) \div 6
    IN  CASE hi = 0 -> <<v, t, p>>
          [] hi = 1 -> <<q, v, p>>
          [] hi = 2 -> <<p, v, t>>
          [] hi = 3 -> <<p, q, v>>
          [] hi = 4 -> <<t, p, v>>
          [] OTHER  -> <<v, p, q>>

\* Lines 116-139.  Every pixel gets the one drawn (h, s, v), so hsv2rgb gives
\* one colour c01 in [0, 1] everywhere; the elements that equalled bg_value
\* are set to bg_value; and then the whole array is multiplied by 255.
\* HsvToRgb is 255 * c01, so an unmasked element ends as HsvToRgb's channel
\* and a masked one as bg_value * 255.
RandomHue(c, hue, sat, val) ==
    LET bg_value == BgValue(c)
        rgb      == HsvToRgb(hue, sat, val)
    IN  Like(c, "float64",
             [y \in Rows(c) |-> [x \in Cols(c) |-> [ch \in Chans |->
                 IF c.px[y][x][ch] = bg_value THEN bg_value * 255 ELSE rgb[ch]]]])

HueCall ==
    /\ pc = "hue_call"
    /\ \E hue \in HueSamples, sat \in SatSamples :
         \E val \in ValDraws(BgValue(img)) :
            ret' = RandomHue(img, hue, sat, val)
    /\ pc' = "returned"
    /\ UNCHANGED <<fn, img, par, s_img, sc, img_trf, hist, err>>

NextHue == HueCall

\* The canvases random_hue is called on: two-tone blocks with a third pixel
\* in the last corner, over pixels that are all background value, all
\* foreground, or have one or two channels at a background value.
HuePixels == {ZeroPix, <<255, 255, 255>>, <<0, 90, 90>>, <<90, 90, 90>>, <<255, 90, 255>>}
HueInputs ==
    {[Block("uint8", H, W, 0, r, 0, k, fg, bg) EXCEPT !.px[H - 1][W - 1] = mk] :
        r \in 0..(H - 1), k \in 0..(W - 1),
        fg \in HuePixels, bg \in HuePixels, mk \in HuePixels}

NoPar == [min_scale |-> 0, max_scale |-> 0, min_pad |-> 0]

InitHue ==
    /\ fn = "random_hue"
    /\ pc = "hue_call"
    /\ img \in HueInputs
    /\ par = NoPar
    /\ s_img = NoCanvas
    /\ sc = ScaleFresh
    /\ img_trf = NoCanvas
    /\ hist = NoHist
    /\ ret = NoCanvas
    /\ err = "none"

SpecHue == InitHue /\ [][NextHue]_vars

-----------------------------------------------------------------------------
\* random_rotate(img, angle_std) and invert_img(img)

\* scipy's rotate followed by imresize(img, [imh, imw]): a uint8 canvas of the
\* input's size.  The rotated, interpolated content is the library's: any
\* canvas with one value where the input is 0 and one value where it is not.
RotateLevels == {0, 54, 201, 255}
RandomRotate(c) ==
    {Like(c, "uint8",
          [y \in Rows(c) |-> [x \in Cols(c) |-> [ch \in Chans |->
              IF c.px[y][x][ch] = 0 THEN lo ELSE hi]]]) :
        lo \in RotateLevels, hi \in RotateLevels}

\* 255 - img, elementwise; the element type stays (a uint8 canvas holds
\* 0..255, so the difference never wraps).
invert_img(c) ==
    Like(c, c.dtype,
         [y \in Rows(c) |-> [x \in Cols(c) |-> [ch \in Chans |-> 255 - c.px[y][x][ch]]]])

-----------------------------------------------------------------------------
\* random_transform(img, original, invert, scale, min_scale, max_scale, hue,
\*                  rotate, angle_std)

\* np.random.uniform(0, 1.0), in tenths
Dice == {0, 5, 9}

\* img.astype(np.uint8)
AsUint8(c) ==
    Like(c, "uint8",
         [y \in Rows(c) |-> [x \in Cols(c) |-> [ch \in Chans |-> c.px[y][x][ch] % 256]]])

\* One more draw of the dice, and what its gate decided.
Drawn(h, fired) == [h EXCEPT !.gates = Append(@, fired)]

\* An identity gate with its comparison turned round.
IdentityTakenReversed(dice) == dice > par.original

\* Lines 171-175: the identity gate, and the copy of img.
IdentityTaken(dice) == dice < par.original
TransformOriginal ==
    /\ pc = "t_original"
    /\ \E dice \in Dice :
         IF IdentityTaken(dice)
         THEN /\ ret' = AsUint8(img)
              /\ pc' = "returned"
              /\ hist' = Drawn(hist, TRUE)
              /\ UNCHANGED img_trf
         ELSE /\ img_trf' = img
              /\ pc' = "t_scale"
              /\ hist' = Drawn(hist, FALSE)
              /\ UNCHANGED ret
    /\ UNCHANGED <<fn, img, par, s_img, sc, err>>

\* Lines 181-183: the scale gate calls random_scale(img_trf, min_scale, max_scale).
TransformScale ==
    /\ pc = "t_scale"
    /\ \E dice \in Dice :
         IF dice < par.scale
         THEN /\ s_img' = img_trf
              /\ pc' = "scale_extent"
              /\ hist' = Drawn(hist, TRUE)
         ELSE /\ pc' = "t_hue"
              /\ hist' = Drawn(hist, FALSE)
              /\ UNCHANGED s_img
    /\ UNCHANGED <<fn, img, par, sc, img_trf, ret, err>>

\* Lines 185-187: the hue gate.
TransformHue ==
    /\ pc = "t_hue"
    /\ \E dice \in Dice :
         IF dice < par.hue
         THEN /\ \E hue \in HueSamples, sat \in SatSamples :
                   \E val \in ValDraws(BgValue(img_trf)) :
                      img_trf' = RandomHue(img_trf, hue, sat, val)
              /\ hist' = [Drawn(hist, TRUE) EXCEPT !.steps = Append(@, "hue")]
         ELSE /\ hist' = Drawn(hist, FALSE)
              /\ UNCHANGED img_trf
    /\ pc' = "t_rotate"
    /\ UNCHANGED <<fn, img, par, s_img, sc, ret, err>>

\* Lines 189-191: the rotate gate.
TransformRotate ==
    /\ pc = "t_rotate"
    /\ \E dice \in Dice :
         IF dice < par.rotate
         THEN /\ img_trf' \in RandomRotate(img_trf)
              /\ hist' = [Drawn(hist, TRUE) EXCEPT !.steps = Append(@, "rotate")]
         ELSE /\ hist' = Drawn(hist, FALSE)
              /\ UNCHANGED img_trf
    /\ pc' = "t_invert"
    /\ UNCHANGED <<fn, img, par, s_img, sc, ret, err>>

\* img_trf[img_trf > 200] = 255 and img_trf[img_trf < 55] = 0
SnapHigh(c) ==
    Like(c, c.dtype,
         [y \in Rows(c) |-> [x \in Cols(c) |-> [ch \in Chans |->
             IF c.px[y][x][ch] > 200 THEN 255 ELSE c.px[y][x][ch]]]])
SnapLow(c) ==
    Like(c, c.dtype,
         [y \in Rows(c) |-> [x \in Cols(c) |-> [ch \in Chans |->
             IF c.px[y][x][ch] < 55 THEN 0 ELSE c.px[y][x][ch]]]])

\* Lines 193-200: invert and snap high, or snap low; then return img_trf.
TransformInvert ==
    /\ pc = "t_invert"
    /\ \E dice \in Dice :
         IF dice < par.invert
         THEN /\ img_trf' = SnapHigh(invert_img(img_trf))
              /\ hist' = [Drawn(hist, TRUE) EXCEPT !.steps = @ \o <<"invert", "snap_high">>,
                                              !.pre = img_trf]
         ELSE /\ img_trf' = SnapLow(img_trf)
              /\ hist' = [Drawn(hist, FALSE) EXCEPT !.steps = Append(@, "snap_low"),
                                              !.pre = img_trf]
    /\ ret' = img_trf'
    /\ pc' = "returned"
    /\ UNCHANGED <<fn, img, par, s_img, sc, err>>

Next ==
    \/ TransformOriginal
    \/ TransformScale
    \/ ScaleExtent
    \/ ScaleResample
    \/ ScaleCheck
    \/ ScaleCrop
    \/ ScalePad
    \/ TransformHue
    \/ TransformRotate
    \/ TransformInvert

\* The canvases random_transform is called on: uint8 blocks, bright on a 0
\* background or dark on a 255 background.
TransformInputs ==
    {Block("uint8", H, W, r[1], r[2], k[1], k[2], t[1], t[2]) :
        r \in {<<0, 1>>, <<1, 1>>}, k \in {<<0, W - 1>>, <<1, 2>>},
        t \in {<<(<<255, 255, 255>>), ZeroPix>>,
               <<(<<0, 90, 90>>), ZeroPix>>,
               <<ZeroPix, (<<255, 255, 255>>)>>}}

\* The gate thresholds, in tenths: never, sometimes, always.
Thresholds == {0, 5, 10}

\* min_scale, max_scale and min_pad are the defaults 0.7, 1.43 and 0.
Init ==
    /\ fn = "random_transform"
    /\ pc = "t_original"
    /\ img \in TransformInputs
    /\ par \in [min_scale : {70}, max_scale : {143}, min_pad : {0},
                original : Thresholds, invert : Thresholds, scale : {0, 10},
                hue : {0, 10}, rotate : {0, 10}]
    /\ s_img = NoCanvas
    /\ sc = ScaleFresh
    /\ img_trf = NoCanvas
    /\ hist = NoHist
    /\ ret = NoCanvas
    /\ err = "none"

Spec == Init /\ [][Next]_vars

-----------------------------------------------------------------------------
\* Properties of random_scale (checked under SpecScale)

ScaleEnded == fn = "random_scale" /\ pc \in {"returned", "raised"}
ScaleReturned == fn = "random_scale" /\ pc = "returned"

\* The size rule of random_scale on the runs that return: the result has H
\* rows and W columns, and on the crop path the crop fits and the pads fill.
ScaleShapeOnReturn ==
    ScaleReturned =>
        /\ ret.h = H /\ ret.w = W
        /\ sc.path = "fallback" => ret = img
        /\ sc.path = "crop" =>
              /\ sc.crop.h <= H /\ sc.crop.w <= W
              /\ sc.pad_size_up >= 0 /\ sc.pad_size_down >= 0
              /\ sc.pad_size_left >= 0 /\ sc.pad_size_right >= 0
              /\ sc.pad_size_up + sc.crop.h + sc.pad_size_down = H
              /\ sc.pad_size_left + sc.crop.w + sc.pad_size_right = W

\* C1: for every H x W canvas with at least one nonzero pixel, every scale
\* factor and every min_pad >= 0, random_scale returns a canvas of exactly H
\* rows and W columns: the input itself on the fallback path, and on the
\* crop path a crop no taller than H nor wider than W plus non-negative
\* padding that adds up to H and W.
C1_ScaleReturnsCanvasSize ==
    ScaleEnded => (pc = "returned" /\ ScaleShapeOnReturn)

\* The fallback condition, read off the resampled canvas.
ScaledContentTooBig ==
    LET rows == NonzeroRows(sc.img_scale)
        cols == NonzeroCols(sc.img_scale)
    IN  \/ (Max(rows) - Min(rows)) + 2 * par.min_pad > H
        \/ (Max(cols) - Min(cols)) + 2 * par.min_pad > W

\* C4: when the content extent of the resampled canvas plus 2 * min_pad
\* exceeds H or W, random_scale returns the input canvas unchanged and
\* neither crops nor pads; when it does not, random_scale never returns
\* early and goes on to crop and pad.
C4_FallbackExact ==
    (fn = "random_scale" /\ pc \in {"scale_crop", "scale_pad", "returned"}) =>
        IF ScaledContentTooBig
        THEN /\ pc = "returned"
             /\ sc.path = "fallback"
             /\ ret = img
             /\ sc.crop = NoCanvas
             /\ sc.pad_size_up = 0 /\ sc.pad_size_down = 0
             /\ sc.pad_size_left = 0 /\ sc.pad_size_right = 0
        ELSE /\ sc.path = "crop"
             /\ pc = "returned" =>
                  /\ sc.crop # NoCanvas
                  /\ ret = Pad(sc.crop, sc.pad_size_up, sc.pad_size_down,
                               sc.pad_size_left, sc.pad_size_right)

\* A fallback happened: the resampled canvas was larger than the input and
\* the input came back.
C4_Witness ==
    /\ ScaleReturned
    /\ ScaledContentTooBig
    /\ sc.img_scale.h > H
    /\ ret = img

\* C7: random_scale is total over canvases with at least one nonzero pixel,
\* a canvas whose content lies in a single row or column included: it
\* returns a canvas and raises no error.
C7_ScaleNeverRaises ==
    fn = "random_scale" => pc # "raised"

\* C9: on the crop path nothing is clipped: the crop covers the inclusive
\* range y_min..y_max and x_min..x_max, and every row and column of the
\* resampled canvas with a nonzero sum is present in the returned canvas.
C9_NoContentClipped ==
    (ScaleReturned /\ sc.path = "crop") =>
        /\ sc.crop.h = sc.y_max - sc.y_min + 1
        /\ sc.crop.w = sc.x_max - sc.x_min + 1
        /\ Cardinality(NonzeroRows(ret)) = Cardinality(NonzeroRows(sc.img_scale))
        /\ Cardinality(NonzeroCols(ret)) = Cardinality(NonzeroCols(sc.img_scale))

\* C10: on the crop path each axis splits its deficit (canvas size minus
\* crop size) as pad_before = floor(deficit / 2), pad_after = deficit -
\* pad_before, so pad_before <= pad_after <= pad_before + 1; and every
\* padded element is 0.
C10_PadSplit ==
    (ScaleReturned /\ sc.path = "crop") =>
        LET dh == H - sc.crop.h
            dw == W - sc.crop.w
        IN  /\ sc.pad_size_up = dh \div 2
            /\ sc.pad_size_down = dh - sc.pad_size_up
            /\ sc.pad_size_left = dw \div 2
            /\ sc.pad_size_right = dw - sc.pad_size_left
            /\ sc.pad_size_up <= sc.pad_size_down
            /\ sc.pad_size_down <= sc.pad_size_up + 1
            /\ sc.pad_size_left <= sc.pad_size_right
            /\ sc.pad_size_right <= sc.pad_size_left + 1
            /\ \A e \in Elems(ret) :
                  (\/ e[1] < sc.pad_size_up
                   \/ e[1] >= sc.pad_size_up + sc.crop.h
                   \/ e[2] < sc.pad_size_left
                   \/ e[2] >= sc.pad_size_left + sc.crop.w) => At(ret, e) = 0

\* A crop with an odd deficit on the rows and an even, nonzero one on the
\* columns was padded back.
C10_Witness ==
    /\ ScaleReturned
    /\ sc.path = "crop"
    /\ sc.crop.h > 0
    /\ sc.pad_size_down = sc.pad_size_up + 1
    /\ sc.pad_size_left = sc.pad_size_right
    /\ sc.pad_size_left > 0

-----------------------------------------------------------------------------
\* Properties of random_hue (checked under SpecHue)

HueReturned == fn = "random_hue" /\ pc = "returned"

\* C2: every element that equalled the background value (0 if the zeros
\* strictly outnumber the 255s, else 255) in the input has that same value
\* in the output of random_hue, on dark and on light backgrounds.
C2_BackgroundPreserved ==
    HueReturned =>
        \A e \in Elems(img) :
            At(img, e) = BgValue(img) => At(ret, e) = At(img, e)

\* The pixels that are not background: not all three channels at bg_value.
Foreground(c) ==
    {p \in Rows(c) \X Cols(c) :
        c.px[p[1]][p[2]] # <<BgValue(c), BgValue(c), BgValue(c)>>}

\* C8: after random_hue all foreground pixels carry one and the same
\* (r, g, b), those with one or two channels at the background value
\* included.
C8_ForegroundUniform ==
    HueReturned =>
        \A p \in Foreground(img), q \in Foreground(img) :
            ret.px[p[1]][p[2]] = ret.px[q[1]][q[2]]

-----------------------------------------------------------------------------
\* Properties of random_transform (checked under Spec)

TransformEnded == fn = "random_transform" /\ pc \in {"returned", "raised"}
TransformReturned == fn = "random_transform" /\ pc = "returned"
IdentityNotTaken == Len(hist.gates) >= 1 /\ ~hist.gates[1]

\* C3: whatever the five gates decide, random_transform returns a uint8
\* canvas with every value in 0..255.
C3_Uint8Output ==
    TransformReturned =>
        /\ ret.dtype = "uint8"
        /\ \A e \in Elems(ret) : At(ret, e) \in 0..255

\* C5: with original = 1.0, for every first draw and every setting of the
\* other thresholds, random_transform returns the input as uint8 with no
\* element changed, draws nothing more and runs no later step.
C5_IdentityGate ==
    (fn = "random_transform" /\ par.original = 10) =>
        /\ pc \in {"t_original", "returned"}
        /\ pc = "returned" =>
              /\ ret.dtype = "uint8"
              /\ ret.h = img.h /\ ret.w = img.w
              /\ \A e \in Elems(img) : At(ret, e) = At(img, e)
              /\ hist.gates = <<TRUE>>
              /\ hist.steps = <<>>
              /\ img_trf = NoCanvas
              /\ sc = ScaleFresh
              /\ err = "none"

\* The identity gate returned while every later gate was set to fire.
C5_Witness ==
    /\ TransformReturned
    /\ par.original = 10
    /\ par.scale = 10 /\ par.hue = 10 /\ par.rotate = 10 /\ par.invert = 10
    /\ ret = img

\* The number of cleanup steps among the steps run.
Cleanups(steps) ==
    Cardinality({i \in 1..Len(steps) : steps[i] \in {"snap_high", "snap_low"}})

\* The cleanup rule of random_transform on the runs that return past the
\* identity gate: one cleanup, last, with the values the two branches give.
CleanupOnReturn ==
    (TransformReturned /\ IdentityNotTaken) =>
        /\ Len(hist.gates) = 5
        /\ Cleanups(hist.steps) = 1
        /\ hist.steps[Len(hist.steps)] = (IF hist.gates[5] THEN "snap_high" ELSE "snap_low")
        /\ hist.gates[5] =>
              /\ \A e \in Elems(ret) :
                    At(ret, e) = (IF 255 - At(hist.pre, e) > 200 THEN 255
                                  ELSE 255 - At(hist.pre, e))
              /\ \A e \in Elems(ret) : ~(At(ret, e) > 200 /\ At(ret, e) < 255)
        /\ ~hist.gates[5] =>
              /\ \A e \in Elems(ret) :
                    At(ret, e) = (IF At(hist.pre, e) < 55 THEN 0 ELSE At(hist.pre, e))
              /\ \A e \in Elems(ret) : ~(At(ret, e) > 0 /\ At(ret, e) < 55)

\* C6: whenever the identity gate is not taken, random_transform runs
\* exactly one of the two cleanups as its last step, whatever the scale,
\* hue and rotate gates did: inverted, 255 - value with every value above
\* 200 set to 255 (nothing strictly between 200 and 255); otherwise every
\* value below 55 set to 0 (nothing strictly between 0 and 55).
C6_CleanupAlwaysLast ==
    (TransformEnded /\ IdentityNotTaken) => (pc = "returned" /\ CleanupOnReturn)

====
